---------------------------- MODULE Spec2Model ----------------------------
(***************************************************************************)
(* Model of cpputils' leak checker (src/cpputils/leakcheck.h, .cpp):      *)
(* the static registry LeakCheck::s_stats guarded by LeakCheck::s_mutex,  *)
(* the operations update, instance_count, print_leaks, print_stats and    *)
(* has_leaks, and the LeakChecker<T> objects that drive update.           *)
(*                                                                         *)
(* Every operation is a sequence of steps of the calling thread (pc), so  *)
(* that the interleavings the mutex allows, and the ones has_leaks takes   *)
(* without it, are all explored. A step that touches nothing shared (a    *)
(* call, the assertion on an argument) is taken together with the first   *)
(* step after it that does: the lock, or has_leaks' first read.           *)
(***************************************************************************)
EXTENDS Integers, Sequences, FiniteSets, TLC

(* ------------------------------ bounds --------------------------------- *)

\* Number of threads that use the registry.
NumThreads == 2

\* Number of distinct tracked types.
NumTypes == 2

\* Number of calls of update (constructions, destructions) and of has_leaks
\* the threads start.
MaxCalls == 3

Threads == 1..NumThreads

(* --------------------------- type names -------------------------------- *)

\* typeid(T).name() of the i-th tracked type, as the std::string of char
\* codes update and instance_count build from it. Distinct types have
\* distinct names; the names are chosen so that their lexicographic order
\* is not the order of i.
TypeName(i) == IF i % 2 = 1 THEN <<2, (i + 1) \div 2>> ELSE <<1, i \div 2>>

TypeNames == {TypeName(i) : i \in 1..NumTypes}

\* std::string's operator<, the order of std::map<std::string, Entry>.
StringLess(a, b) ==
    \/ \E i \in 1..Len(a) :
          /\ i <= Len(b)
          /\ a[i] < b[i]
          /\ \A j \in 1..(i - 1) : a[j] = b[j]
    \/ /\ Len(a) < Len(b)
       /\ \A j \in 1..Len(a) : a[j] = b[j]

(* ------------------------------- Entry --------------------------------- *)

\* A faulty Entry, without the default member initialisers: a field holds
\* what the memory held.
EntryUninitialised == [count |-> 0, max |-> 1, total |-> 0]

\* A default-constructed Entry: count = 0, max = 0, total = 0.
Entry == [count |-> 0, max |-> 0, total |-> 0]

(* ------------------------------- state --------------------------------- *)

VARIABLES
    s_stats,    \* LeakCheck::s_stats: a function from the keys present to Entry
    s_mutex,    \* LeakCheck::s_mutex: 0 when free, else the thread holding it
    ndebug,     \* the build: TRUE when assertions are compiled out (NDEBUG)
    status,     \* "running", "aborted" (a failed assert) or "crashed"
    pc,         \* where each thread is in the operation it runs
    arg,        \* the arguments of the operation each thread runs
    tmp,        \* update: the value of e.count each thread has read
    it,         \* has_leaks: the iterator of each thread's loop
    raced,      \* has_leaks: its unlocked reads overlapped a writer's critical section
    ret,        \* the value or report the operation of each thread has produced
    calls,      \* the number of update and has_leaks calls each thread started
    objs,       \* the number of LeakChecker<T> objects that exist, per type
    plus,       \* history: update(T, +1) calls applied, per type
    minus,      \* history: update(T, -1) calls applied, per type
    hi,         \* history: the largest value count has held, per type
    other,      \* history: calls applied with another increment, per type
    viol,       \* history: an applied call broke the +1/-1 contract, per type
    last,       \* history: the query results since the last update step,
                \* in the specifications that record them
    order       \* history: the keys in the order of their insertion, in
                \* the specifications that record it

vars == <<s_stats, s_mutex, ndebug, status, pc, arg, tmp, it, raced, ret, calls,
          objs, plus, minus, other, hi, viol, last, order>>

\* The values update may be handed: +1 and -1 are the contract, the others
\* a caller's mistake.
Increments == {-1, 0, 1, 2}

NoArg == [typeName |-> <<>>, increment |-> 0, via |-> "none"]
NoRet == [kind |-> "none"]
End == <<>>

\* No query has returned since the last update step.
NoLast == [stats |-> NoRet, leaks |-> NoRet, count |-> [n \in TypeNames |-> NoRet]]

\* No key has been inserted.
NoOrder == [keys |-> <<>>]

\* The query results, or the insertions, are not recorded.
Unrecorded == [kind |-> "unrecorded"]

\* The history of query results after an update step, and after a query
\* has returned r.
Forget == IF last = Unrecorded THEN last ELSE NoLast

Remember(field, r) ==
    IF last = Unrecorded THEN last ELSE [last EXCEPT ![field] = r]

RememberCount(n, r) ==
    IF last = Unrecorded THEN last ELSE [last EXCEPT !.count[n] = r]

RECURSIVE Sum(_, _)
Sum(f, S) ==
    IF S = {} THEN 0
    ELSE LET x == CHOOSE y \in S : TRUE IN f[x] + Sum(f, S \ {x})

\* A container that iterates in insertion order: the keys S as the history
\* of insertions has them.
InsertionOrder(S) == SelectSeq(order.keys, LAMBDA k : k \in S)

\* The keys of the map in std::map's iteration order.
RECURSIVE SortedKeys(_)
SortedKeys(S) ==
    IF S = {} THEN <<>>
    ELSE LET m == CHOOSE k \in S : \A o \in S \ {k} : StringLess(k, o)
         IN  <<m>> \o SortedKeys(S \ {m})

\* s_stats.begin() / ++it, as keys; End is s_stats.end().
FirstKey == IF DOMAIN s_stats = {} THEN End ELSE SortedKeys(DOMAIN s_stats)[1]

NextKey(k) ==
    LET after == {o \in DOMAIN s_stats : StringLess(k, o)}
    IN  IF after = {} THEN End ELSE SortedKeys(after)[1]

\* A faulty insertion: it resets the entries the map already holds.
SubscriptResets(m, key) ==
    IF key \in DOMAIN m THEN m
    ELSE [k \in DOMAIN m \cup {key} |-> Entry]

\* s_stats[key]: std::map::operator[] inserts a default Entry for a key
\* that is absent, and leaves the map alone otherwise.
Subscript(m, key) ==
    IF key \in DOMAIN m THEN m
    ELSE [k \in DOMAIN m \cup {key} |-> IF k = key THEN Entry ELSE m[k]]

\* The history of insertions once the map m has replaced s_stats.
OrderAfter(m) ==
    LET new == DOMAIN m \ DOMAIN s_stats
    IN  IF order = Unrecorded \/ new = {} THEN order
        ELSE [keys |-> Append(order.keys, CHOOSE k \in new : TRUE)]

\* The state before any call, with the history of query results h and the
\* history of insertions o.
Start(h, o) ==
    /\ s_stats = <<>>
    /\ s_mutex = 0
    /\ ndebug \in BOOLEAN
    /\ status = "running"
    /\ pc = [t \in Threads |-> "idle"]
    /\ arg = [t \in Threads |-> NoArg]
    /\ tmp = [t \in Threads |-> 0]
    /\ it = [t \in Threads |-> End]
    /\ raced = [t \in Threads |-> FALSE]
    /\ ret = [t \in Threads |-> NoRet]
    /\ calls = [t \in Threads |-> 0]
    /\ objs = [n \in TypeNames |-> 0]
    /\ plus = [n \in TypeNames |-> 0]
    /\ minus = [n \in TypeNames |-> 0]
    /\ other = [n \in TypeNames |-> 0]
    /\ hi = [n \in TypeNames |-> 0]
    /\ viol = [n \in TypeNames |-> FALSE]
    /\ last = h
    /\ order = o

Init == Start(Unrecorded, Unrecorded)

(* --------------------------- LeakCheck::update -------------------------- *)

Running == status = "running"

\* A thread leaves an operation: back to idle, its locals gone.
Leave(t) ==
    /\ pc' = [pc EXCEPT ![t] = "idle"]
    /\ arg' = [arg EXCEPT ![t] = NoArg]
    /\ ret' = [ret EXCEPT ![t] = NoRet]

\* The operations that write the map inside their critical section.
Writer(t) ==
    arg[t].via \in {"update", "ctor", "copy", "dtor", "assign", "instance_count"}

\* A faulty lock: it is taken whether or not another thread holds it.
LockNoExclusion(t, writes) ==
    /\ s_mutex' = t
    /\ raced' = [u \in Threads |->
                    IF writes /\ u # t /\ pc[u] = "hl_loop" THEN TRUE ELSE raced[u]]

\* Taking s_mutex (std::lock_guard's constructor). A has_leaks loop that is
\* under way in another thread now overlaps a writer's critical section.
Lock(t, writes) ==
    /\ s_mutex = 0
    /\ s_mutex' = t
    /\ raced' = [u \in Threads |->
                    IF writes /\ u # t /\ pc[u] = "hl_loop" THEN TRUE ELSE raced[u]]

\* A faulty e.count += increment: a negative increment is dropped.
CountAfterNoDecrement(e, old, increment) ==
    [e EXCEPT !.count = IF increment > 0 THEN old + increment ELSE old]

\* e.count += increment, on the value old read from e.count
CountAfter(e, old, increment) == [e EXCEPT !.count = old + increment]

\* A faulty total: the test on the sign of increment is missing.
TotalAfterAnySign(e, increment) == [e EXCEPT !.total = @ + increment]

\* if (increment > 0) e.total += increment
TotalAfter(e, increment) ==
    IF increment > 0 THEN [e EXCEPT !.total = @ + increment] ELSE e

\* A faulty max: it follows count down as well as up.
MaxAfterFollowsCount(e) == [e EXCEPT !.max = e.count]

\* if (e.count > e.max) e.max = e.count
MaxAfter(e) == IF e.count > e.max THEN [e EXCEPT !.max = e.count] ELSE e

\* A faulty assertion: only an increment of 0 is rejected.
IncrementOkNonZero(increment) == increment # 0

\* assert(increment == 1 || increment == -1)
IncrementOk(increment) == increment = 1 \/ increment = -1

\* assert(e.count >= 0)
CountOk(e) == e.count >= 0

\* Lines 14-16: update(typeName, increment) is called, asserts on increment
\* (a failed assert aborts the program) and takes the lock.
UCall(t, typeName, increment, via) ==
    /\ Running
    /\ pc[t] = "idle"
    /\ calls' = [calls EXCEPT ![t] = @ + 1]
    /\ arg' = [arg EXCEPT ![t] =
                 [typeName |-> typeName, increment |-> increment, via |-> via]]
    /\ IF IncrementOk(increment) \/ ndebug
       THEN /\ Lock(t, TRUE)
            /\ pc' = [pc EXCEPT ![t] = "u_lookup"]
            /\ UNCHANGED status
       ELSE /\ status' = "aborted"
            /\ pc' = [pc EXCEPT ![t] = "u_assert"]
            /\ UNCHANGED <<s_mutex, raced>>
    /\ last' = Forget
    /\ UNCHANGED <<s_stats, ndebug, order, tmp, it, ret, plus, minus, other, hi,
                   viol>>

\* update called directly, as a class derived from LeakCheck may.
Update(t) ==
    /\ Sum(calls, Threads) < MaxCalls
    /\ \E typeName \in TypeNames, increment \in Increments :
          UCall(t, typeName, increment, "update")
    /\ UNCHANGED objs

\* Line 18: Entry &e = s_stats[std::string(typeName)].
ULookup(t) ==
    /\ Running
    /\ pc[t] = "u_lookup"
    /\ s_stats' = Subscript(s_stats, arg[t].typeName)
    /\ order' = OrderAfter(Subscript(s_stats, arg[t].typeName))
    /\ pc' = [pc EXCEPT ![t] = "u_load"]
    /\ last' = Forget
    /\ UNCHANGED <<s_mutex, ndebug, status, arg, tmp, it, raced, ret, calls,
                   objs, plus, minus, other, hi, viol>>

Max2(a, b) == IF a >= b THEN a ELSE b

\* Line 20: e.count += increment reads e.count ...
ULoad(t) ==
    /\ Running
    /\ pc[t] = "u_load"
    /\ tmp' = [tmp EXCEPT ![t] = s_stats[arg[t].typeName].count]
    /\ pc' = [pc EXCEPT ![t] = "u_count"]
    /\ last' = Forget
    /\ UNCHANGED <<s_stats, s_mutex, ndebug, order, status, arg, it, raced, ret,
                   calls, objs, plus, minus, other, hi, viol>>

\* ... and writes the sum back. The history variables record the call.
UCount(t) ==
    LET n == arg[t].typeName
        d == arg[t].increment
        e == CountAfter(s_stats[n], tmp[t], d)
    IN  /\ Running
        /\ pc[t] = "u_count"
        /\ s_stats' = [s_stats EXCEPT ![n] = e]
        /\ tmp' = [tmp EXCEPT ![t] = 0]
        /\ plus' = [plus EXCEPT ![n] = IF d = 1 THEN @ + 1 ELSE @]
        /\ minus' = [minus EXCEPT ![n] = IF d = -1 THEN @ + 1 ELSE @]
        /\ other' = [other EXCEPT ![n] = IF IncrementOk(d) THEN @ ELSE @ + 1]
        /\ hi' = [hi EXCEPT ![n] = Max2(@, e.count)]
        /\ viol' = [viol EXCEPT ![n] =
                      \/ @
                      \/ ~IncrementOk(d)
                      \/ (d = -1 /\ plus[n] - minus[n] = 0)]
        /\ pc' = [pc EXCEPT ![t] = "u_check"]
        /\ last' = Forget
        /\ UNCHANGED <<s_mutex, ndebug, order, status, arg, it, raced, ret, calls, objs>>

\* Line 21: assert(e.count >= 0).
UCheck(t) ==
    /\ Running
    /\ pc[t] = "u_check"
    /\ IF CountOk(s_stats[arg[t].typeName]) \/ ndebug
       THEN /\ pc' = [pc EXCEPT ![t] = "u_total"]
            /\ UNCHANGED status
       ELSE /\ status' = "aborted"
            /\ UNCHANGED pc
    /\ last' = Forget
    /\ UNCHANGED <<s_stats, s_mutex, ndebug, order, arg, tmp, it, raced, ret, calls,
                   objs, plus, minus, other, hi, viol>>

\* Lines 23-26.
UTotal(t) ==
    LET n == arg[t].typeName
    IN  /\ Running
        /\ pc[t] = "u_total"
        /\ s_stats' = [s_stats EXCEPT ![n] = TotalAfter(@, arg[t].increment)]
        /\ pc' = [pc EXCEPT ![t] = "u_max"]
        /\ last' = Forget
        /\ UNCHANGED <<s_mutex, ndebug, order, status, arg, tmp, it, raced, ret, calls,
                   objs, plus, minus, other, hi, viol>>

\* Lines 28-31.
UMax(t) ==
    LET n == arg[t].typeName
    IN  /\ Running
        /\ pc[t] = "u_max"
        /\ s_stats' = [s_stats EXCEPT ![n] = MaxAfter(@)]
        /\ pc' = [pc EXCEPT ![t] = "u_unlock"]
        /\ last' = Forget
        /\ UNCHANGED <<s_mutex, ndebug, order, status, arg, tmp, it, raced, ret, calls,
                   objs, plus, minus, other, hi, viol>>

\* Line 32: the lock_guard is destroyed and update returns. A LeakChecker
\* constructor that called it returns too, and its object exists.
UUnlock(t) ==
    /\ Running
    /\ pc[t] = "u_unlock"
    /\ s_mutex' = 0
    /\ objs' = IF arg[t].via \in {"ctor", "copy"}
               THEN [objs EXCEPT ![arg[t].typeName] = @ + 1]
               ELSE objs
    /\ Leave(t)
    /\ last' = Forget
    /\ UNCHANGED <<s_stats, ndebug, order, status, tmp, it, raced, calls, plus,
                   minus, other, hi, viol>>

UpdateStep(t) ==
    \/ ULookup(t)
    \/ ULoad(t)
    \/ UCount(t)
    \/ UCheck(t)
    \/ UTotal(t)
    \/ UMax(t)
    \/ UUnlock(t)

(* ----------------------- LeakChecker<T> objects ------------------------- *)

\* LeakChecker(): update(1).
CtorIncrement == 1

\* A faulty copy constructor: it registers nothing.
CopyIncrementNone == 1 - 1

\* LeakChecker(const LeakChecker &): update(1).
CopyIncrement == 1

\* ~LeakChecker(): update(-1).
DtorIncrement == -1

\* The implicit copy assignment operator: LeakChecker declares none, and
\* the one the compiler generates calls nothing.
AssignIncrement == 0

\* A LeakChecker<T> is default-constructed.
Construct(t) ==
    /\ Sum(calls, Threads) < MaxCalls
    /\ \E typeName \in TypeNames : UCall(t, typeName, CtorIncrement, "ctor")
    /\ UNCHANGED objs

\* A LeakChecker<T> is copy-constructed from one that exists.
CopyConstruct(t) ==
    /\ Sum(calls, Threads) < MaxCalls
    /\ \E typeName \in TypeNames :
          /\ objs[typeName] > 0
          /\ UCall(t, typeName, CopyIncrement, "copy")
    /\ UNCHANGED objs

\* A LeakChecker<T> that exists is destroyed: its lifetime ends as the
\* destructor starts.
Destroy(t) ==
    \E typeName \in TypeNames :
       /\ Sum(calls, Threads) < MaxCalls
       /\ objs[typeName] > 0
       /\ objs' = [objs EXCEPT ![typeName] = @ - 1]
       /\ UCall(t, typeName, DtorIncrement, "dtor")

\* One LeakChecker<T> that exists is assigned to another (or itself).
Assign(t) ==
    \E typeName \in TypeNames :
       /\ objs[typeName] > 0
       /\ IF AssignIncrement = 0
          THEN /\ Running
               /\ pc[t] = "idle"
               /\ UNCHANGED vars
          ELSE /\ Sum(calls, Threads) < MaxCalls
               /\ UCall(t, typeName, AssignIncrement, "assign")
               /\ UNCHANGED objs

(* ----------------------- LeakCheck::instance_count ---------------------- *)

\* A call of an operation that takes the lock first.
LockedCall(t, label, typeName, via, writes) ==
    /\ Running
    /\ pc[t] = "idle"
    /\ Lock(t, writes)
    /\ pc' = [pc EXCEPT ![t] = label]
    /\ arg' = [arg EXCEPT ![t] =
                 [typeName |-> typeName, increment |-> 0, via |-> via]]

\* The map after instance_count's lookup of key.
MapAfterCount(m, key) == Subscript(m, key)

\* A faulty read: the field max in place of count.
CountReadIsMax(m, key) == IF key \in DOMAIN m THEN m[key].max ELSE 0

\* The value instance_count returns: the field count of the entry its
\* lookup yields.
CountRead(m, key) == IF key \in DOMAIN m THEN m[key].count ELSE 0

\* leakcheck.h lines 77-78: the lock, then
\* s_stats[std::string(typeid(T).name())].count
InstanceCount(t) ==
    \E n \in TypeNames :
       LET m == MapAfterCount(s_stats, n)
           r == [kind |-> "count", value |-> CountRead(m, n)]
       IN  /\ LockedCall(t, "ic_unlock", n, "instance_count", TRUE)
           /\ s_stats' = m
           /\ order' = OrderAfter(m)
           /\ ret' = [ret EXCEPT ![t] = r]
           /\ last' = RememberCount(n, r)
           /\ UNCHANGED <<ndebug, status, tmp, it, calls, objs, plus, minus, other,
                   hi, viol>>

\* The lock_guard is destroyed and the operation returns.
Unlock(t, label) ==
    /\ Running
    /\ pc[t] = label
    /\ s_mutex' = 0
    /\ Leave(t)
    /\ UNCHANGED <<s_stats, ndebug, order, status, tmp, it, raced, calls, objs, plus,
                   minus, other, hi, viol, last>>

ICUnlock(t) == Unlock(t, "ic_unlock")

(* ------------------------ LeakCheck::print_leaks ------------------------ *)

\* A faulty test in print_leaks: an entry whose count is 0 is listed.
IsLeakOrZero(e) == e.count >= 0

\* A faulty test in print_leaks: an entry whose count is negative is listed
\* and summed too.
IsLeakNonZero(e) == e.count # 0

\* Line 43: if (kv.second.count > 0)
IsLeak(e) == e.count > 0

\* The loop of print_leaks over the keys ks (in order): the rows printed
\* and the int leaks, starting from rows and leaks. The sum of the counts
\* stays within int for every number of calls the model makes.
RECURSIVE LeaksLoop(_, _, _, _)
LeaksLoop(m, ks, rows, leaks) ==
    IF ks = <<>> THEN [rows |-> rows, leaks |-> leaks]
    ELSE LET k == Head(ks)
         IN  IF IsLeak(m[k])
             THEN LeaksLoop(m, Tail(ks), Append(rows, <<k, m[k].count>>),
                            leaks + m[k].count)
             ELSE LeaksLoop(m, Tail(ks), rows, leaks)

\* What print_leaks prints: the rows, the total, and which closing line.
LeaksReport(m) ==
    LET r == LeaksLoop(m, SortedKeys(DOMAIN m), <<>>, 0)
    IN  [kind |-> "leaks", rows |-> r.rows, leaks |-> r.leaks,
         noLeaks |-> (r.leaks = 0)]

\* Lines 36-57: the lock and the report.
PrintLeaks(t) ==
    /\ LockedCall(t, "pl_unlock", <<>>, "print_leaks", FALSE)
    /\ ret' = [ret EXCEPT ![t] = LeaksReport(s_stats)]
    /\ UNCHANGED <<s_stats, ndebug, order, status, tmp, it, calls, objs, plus, minus,
                   other, hi, viol, last>>

PLUnlock(t) == Unlock(t, "pl_unlock")

(* ------------------------ LeakCheck::print_stats ------------------------ *)

\* A faulty print_stats: it skips the entries whose count is 0.
StatsRowsLiveOnly(m) ==
    LET ks == SortedKeys({k \in DOMAIN m : m[k].count # 0})
    IN  [i \in 1..Len(ks) |->
            <<ks[i], m[ks[i]].count, m[ks[i]].total, m[ks[i]].max>>]

\* The rows print_stats prints: type, count, total, max.
StatsRows(m) ==
    LET ks == SortedKeys(DOMAIN m)
    IN  [i \in 1..Len(ks) |->
            <<ks[i], m[ks[i]].count, m[ks[i]].total, m[ks[i]].max>>]

\* Lines 64-71: the lock and the report.
PrintStats(t) ==
    LET r == [kind |-> "stats", rows |-> StatsRows(s_stats)]
    IN  /\ LockedCall(t, "ps_unlock", <<>>, "print_stats", FALSE)
        /\ ret' = [ret EXCEPT ![t] = r]
        /\ last' = Remember("stats", r)
        /\ UNCHANGED <<s_stats, ndebug, order, status, tmp, it, calls, objs, plus, minus,
                   other, hi, viol>>

PSUnlock(t) == Unlock(t, "ps_unlock")

(* ------------------------- LeakCheck::has_leaks ------------------------- *)

\* Whether has_leaks takes s_mutex: leakcheck.cpp lines 76-87 declare no
\* lock_guard.
HasLeaksLocks == FALSE

\* A faulty test in has_leaks: an entry whose count is 0 counts as a leak.
LeakedOrZero(e) == e.count >= 0

\* Line 80: if (kv.second.count > 0)
Leaked(e) == e.count > 0

\* Another thread is inside the critical section of an operation that
\* writes the map.
WriterInside(t) == s_mutex \notin {0, t} /\ Writer(s_mutex)

\* Line 78: has_leaks is called and its range-for takes s_stats.begin().
HasLeaks(t) ==
    /\ Running
    /\ pc[t] = "idle"
    /\ Sum(calls, Threads) < MaxCalls
    /\ calls' = [calls EXCEPT ![t] = @ + 1]
    /\ IF HasLeaksLocks
       THEN /\ s_mutex = 0
            /\ s_mutex' = t
       ELSE UNCHANGED s_mutex
    /\ arg' = [arg EXCEPT ![t] =
                 [typeName |-> <<>>, increment |-> 0, via |-> "has_leaks"]]
    /\ it' = [it EXCEPT ![t] = FirstKey]
    /\ raced' = [raced EXCEPT ![t] = WriterInside(t)]
    /\ pc' = [pc EXCEPT ![t] = "hl_loop"]
    /\ UNCHANGED <<s_stats, tmp, ndebug, order, status, ret, objs, plus, minus,
                   other, hi, viol, last>>

\* has_leaks returns r; reads that raced with a writer make the value any
\* (and the history of query results does not record it).
HLReturn(t, r) ==
    \E v \in (IF raced[t] THEN BOOLEAN ELSE {r}) :
       LET b == [kind |-> "bool", value |-> v]
       IN  /\ ret' = [ret EXCEPT ![t] = b]
           /\ last' = IF raced[t] THEN last ELSE Remember("leaks", b)
           /\ pc' = [pc EXCEPT ![t] = "hl_done"]
           /\ it' = [it EXCEPT ![t] = End]
           /\ raced' = [raced EXCEPT ![t] = FALSE]

\* Lines 78-86: one round of the loop.
HLLoop(t) ==
    /\ Running
    /\ pc[t] = "hl_loop"
    /\ IF it[t] = End
       THEN HLReturn(t, FALSE)
       ELSE IF Leaked(s_stats[it[t]])
            THEN HLReturn(t, TRUE)
            ELSE /\ it' = [it EXCEPT ![t] = NextKey(it[t])]
                 /\ UNCHANGED <<ret, last, pc, raced>>
    /\ UNCHANGED <<s_stats, tmp, s_mutex, ndebug, order, status, arg, calls, objs, plus,
                   minus, other, hi, viol>>

\* The other outcome of reads that raced with a writer: the program dies.
HLCrash(t) ==
    /\ Running
    /\ pc[t] = "hl_loop"
    /\ raced[t]
    /\ status' = "crashed"
    /\ UNCHANGED <<s_stats, s_mutex, ndebug, order, pc, arg, tmp, it, raced, ret,
                   calls, objs, plus, minus, other, hi, viol, last>>

\* has_leaks returns to its caller.
HLDone(t) ==
    /\ Running
    /\ pc[t] = "hl_done"
    /\ IF HasLeaksLocks THEN s_mutex' = 0 ELSE UNCHANGED s_mutex
    /\ Leave(t)
    /\ UNCHANGED <<s_stats, ndebug, order, status, tmp, it, raced, calls, objs, plus,
                   minus, other, hi, viol, last>>

QueryStep(t) ==
    \/ ICUnlock(t)
    \/ PLUnlock(t)
    \/ PSUnlock(t)
    \/ HLLoop(t)
    \/ HLCrash(t)
    \/ HLDone(t)

(* ---------------------------- specifications ---------------------------- *)

\* Threads that call update and the queries in any order.
Next ==
    \E t \in Threads :
       \/ Update(t)
       \/ UpdateStep(t)
       \/ InstanceCount(t)
       \/ PrintLeaks(t)
       \/ PrintStats(t)
       \/ HasLeaks(t)
       \/ QueryStep(t)

Spec == Init /\ [][Next]_vars

\* The operations that write the map: update and instance_count.
NextUpdates ==
    \E t \in Threads :
       \/ Update(t)
       \/ UpdateStep(t)
       \/ InstanceCount(t)
       \/ ICUnlock(t)

SpecUpdates == Init /\ [][NextUpdates]_vars

\* The writers and the two reports, which read the map under the lock.
NextReports ==
    \E t \in Threads :
       \/ Update(t)
       \/ UpdateStep(t)
       \/ InstanceCount(t)
       \/ ICUnlock(t)
       \/ PrintLeaks(t)
       \/ PLUnlock(t)
       \/ PrintStats(t)
       \/ PSUnlock(t)

SpecReports == Init /\ [][NextReports]_vars

\* update and has_leaks, which reads the map without the lock.
NextHasLeaks ==
    \E t \in Threads :
       \/ Update(t)
       \/ UpdateStep(t)
       \/ HasLeaks(t)
       \/ HLLoop(t)
       \/ HLCrash(t)
       \/ HLDone(t)

SpecHasLeaks == Init /\ [][NextHasLeaks]_vars

\* Threads that construct, copy, assign and destroy LeakChecker<T> objects
\* and ask for their number.
NextObjects ==
    \E t \in Threads :
       \/ Construct(t)
       \/ CopyConstruct(t)
       \/ Assign(t)
       \/ Destroy(t)
       \/ UpdateStep(t)
       \/ InstanceCount(t)
       \/ ICUnlock(t)

SpecObjects == Init /\ [][NextObjects]_vars

\* The same threads calling every query, with the results of the queries
\* recorded from one update step to the next.
InitQueries == Start(NoLast, Unrecorded)

NextQueries ==
    \E t \in Threads :
       \/ Construct(t)
       \/ CopyConstruct(t)
       \/ Assign(t)
       \/ Destroy(t)
       \/ UpdateStep(t)
       \/ InstanceCount(t)
       \/ PrintLeaks(t)
       \/ PrintStats(t)
       \/ HasLeaks(t)
       \/ QueryStep(t)

SpecQueries == InitQueries /\ [][NextQueries]_vars

\* update, has_leaks and print_leaks, with the results of has_leaks
\* recorded from one update step to the next.
NextAgree ==
    \E t \in Threads :
       \/ Update(t)
       \/ UpdateStep(t)
       \/ HasLeaks(t)
       \/ HLLoop(t)
       \/ HLCrash(t)
       \/ HLDone(t)
       \/ PrintLeaks(t)
       \/ PLUnlock(t)

SpecAgree == InitQueries /\ [][NextAgree]_vars

\* Threads that construct, copy, assign and destroy LeakChecker<T> objects,
\* ask for their number and print the two reports, with the order in which
\* the keys were inserted recorded.
InitOrder == Start(Unrecorded, NoOrder)

NextOrder ==
    \E t \in Threads :
       \/ Construct(t)
       \/ CopyConstruct(t)
       \/ Assign(t)
       \/ Destroy(t)
       \/ UpdateStep(t)
       \/ InstanceCount(t)
       \/ ICUnlock(t)
       \/ PrintLeaks(t)
       \/ PLUnlock(t)
       \/ PrintStats(t)
       \/ PSUnlock(t)

SpecOrder == InitOrder /\ [][NextOrder]_vars

\* Every thread calls update(T, +1) and then update(T, -1), once each, for
\* one type T.
Pair == <<1, -1>>

PairType == TypeName(1)

PairCall(t) ==
    /\ calls[t] < Len(Pair)
    /\ UCall(t, PairType, Pair[calls[t] + 1], "update")
    /\ UNCHANGED objs

NextPairs == \E t \in Threads : PairCall(t) \/ UpdateStep(t)

SpecPairs == Init /\ [][NextPairs]_vars

(* ------------------------------ properties ------------------------------ *)

\* The counters of a type: those of its entry, and 0 while it has none.
Live(n) == IF n \in DOMAIN s_stats THEN s_stats[n].count ELSE 0

Peak(n) == IF n \in DOMAIN s_stats THEN s_stats[n].max ELSE 0

Total(n) == IF n \in DOMAIN s_stats THEN s_stats[n].total ELSE 0

\* A thread is between update's write of count and its write of max for
\* type n: the entry is in the middle of one update.
MidUpdate(n) ==
    \E t \in Threads :
       pc[t] \in {"u_check", "u_total", "u_max"} /\ arg[t].typeName = n

Idle(t) == pc[t] = "idle"

\* C1: for every type whose calls so far kept the contract (each -1 after
\* an unmatched +1, no other increment), count is never negative and is
\* the number of +1 calls minus the number of -1 calls applied so far.
C1_LiveIsPlusMinusMinus ==
    \A n \in TypeNames :
       ~viol[n] => (Live(n) >= 0 /\ Live(n) = plus[n] - minus[n])

\* Two +1 and one -1 have been applied to a type, within the contract.
C1_Witness ==
    \E n \in TypeNames :
       ~viol[n] /\ plus[n] = 2 /\ minus[n] = 1 /\ Live(n) = 1

\* C2: outside the middle of one update, max is the largest value count
\* has held (0 before any call), and so is at least count.
C2_PeakIsHighWaterMark ==
    \A n \in TypeNames :
       ~MidUpdate(n) => (Peak(n) = hi[n] /\ Peak(n) >= Live(n))

\* A type's count has been 2 and is 1 again, with no update under way.
C2_Witness ==
    \E n \in TypeNames :
       /\ \A t \in Threads : Idle(t)
       /\ hi[n] = 2
       /\ Live(n) = 1
       /\ Peak(n) = 2

\* C3: total is the number of +1 calls applied (for a type handed only +1
\* and -1), is at least count outside the middle of one update, and no
\* step decreases it.
C3_TotalCountsCreations ==
    [][\A n \in TypeNames :
          /\ (other[n]' = 0 /\ ~MidUpdate(n)') => Total(n)' = plus[n]'
          /\ ~MidUpdate(n)' => Total(n)' >= Live(n)'
          /\ Total(n)' >= Total(n)]_vars

\* A type has had +1, -1, +1 applied: total 2 with count back from 0.
C3_Witness ==
    \E n \in TypeNames :
       /\ \A t \in Threads : Idle(t)
       /\ other[n] = 0
       /\ plus[n] = 2
       /\ minus[n] = 1
       /\ Total(n) = 2
       /\ hi[n] = 1

\* Some entry of the map has a positive count.
AnyLive == \E n \in DOMAIN s_stats : s_stats[n].count > 0

\* C4: a has_leaks call that no writer's critical section overlapped
\* returns true exactly when some entry has count > 0; where no count is
\* negative, it returns false exactly when every count is 0.
C4_HasLeaksIffLive ==
    [][\A t \in Threads :
          (pc[t] = "hl_loop" /\ pc'[t] = "hl_done" /\ ~raced[t]) =>
             /\ ret'[t].value <=> AnyLive
             /\ (\A n \in DOMAIN s_stats : s_stats[n].count >= 0) =>
                   (~ret'[t].value <=> \A n \in DOMAIN s_stats : s_stats[n].count = 0)
      ]_vars

\* has_leaks has returned true to a thread while every other thread was
\* idle, having stepped over an entry whose count is 0.
C4_Witness ==
    \E t \in Threads :
       /\ pc[t] = "hl_done"
       /\ ret[t].value
       /\ \A u \in Threads \ {t} : Idle(u)
       /\ s_mutex = 0
       /\ AnyLive
       /\ \E n \in DOMAIN s_stats : s_stats[n].count = 0 /\ StringLess(n, TypeName(1))

\* The state once every thread has made its two calls.
PairsDone == \A t \in Threads : Idle(t) /\ calls[t] = Len(Pair)

\* C5: when every thread has completed its update(T, +1) and then its
\* update(T, -1), count is 0, total is the number of threads, and max is
\* between 1 and the number of threads.
C5_PairsBalance ==
    PairsDone =>
       /\ Live(PairType) = 0
       /\ Total(PairType) = NumThreads
       /\ Peak(PairType) >= 1
       /\ Peak(PairType) <= NumThreads

\* Every thread is done, and at one point all their +1 were in effect.
C5_Witness == PairsDone /\ Peak(PairType) = NumThreads /\ minus[PairType] = NumThreads

\* The steps at which a thread reads or writes the map.
Accessing(t) ==
    pc[t] \in {"u_lookup", "u_load", "u_count", "u_check", "u_total", "u_max",
               "ic_unlock", "pl_unlock", "ps_unlock", "hl_loop"}

\* C6: every thread that is reading or writing the map holds s_mutex, and
\* no has_leaks loop is under way while another thread is inside the
\* critical section of update or instance_count.
C6_AllAccessUnderLock ==
    /\ \A t \in Threads : Accessing(t) => s_mutex = t
    /\ \A t \in Threads : pc[t] = "hl_loop" => ~WriterInside(t)

\* C7: a query called again with no update step in between returns what it
\* returned before: the rows of print_stats, the value of instance_count
\* for each type, and the value of a has_leaks call that no writer's
\* critical section overlapped.
C7_RepeatedQueriesAgree ==
    [][\A t \in Threads :
          /\ (pc[t] = "idle" /\ pc'[t] = "ps_unlock" /\ last.stats # NoRet) =>
                ret'[t] = last.stats
          /\ (pc[t] = "idle" /\ pc'[t] = "ic_unlock"
                /\ last.count[arg'[t].typeName] # NoRet) =>
                ret'[t] = last.count[arg'[t].typeName]
          /\ (pc[t] = "hl_loop" /\ pc'[t] = "hl_done" /\ ~raced[t]
                /\ last.leaks # NoRet) =>
                ret'[t] = last.leaks
      ]_vars

\* The operations that are queries.
Queries == {"instance_count", "has_leaks", "print_leaks", "print_stats"}

\* C8: no step of a query changes the map: its keys and every entry's
\* count, max and total are as before the step.
C8_QueriesLeaveMapUnchanged ==
    [][\A t \in Threads :
          ((arg[t].via \in Queries \/ arg'[t].via \in Queries)
             /\ <<pc[t], arg[t], it[t], ret[t]>>' # <<pc[t], arg[t], it[t], ret[t]>>)
          => s_stats' = s_stats
      ]_vars

\* No operation is under way.
Quiet == \A t \in Threads : Idle(t)

\* C9: with no operation under way, count is the number of LeakChecker<T>
\* objects that exist, for every type; and instance_count<T>() called
\* while the other threads are idle returns that number.
C9_CountIsObjectsAlive ==
    /\ Quiet => \A n \in TypeNames : Live(n) = objs[n]
    /\ \A t \in Threads :
          (pc[t] = "ic_unlock" /\ \A u \in Threads \ {t} : Idle(u)) =>
             ret[t].value = objs[arg[t].typeName]

\* instance_count<T>() has returned 1 after a construction, a copy
\* construction and a destruction of LeakChecker<T> objects.
C9_Witness ==
    \E t \in Threads :
       /\ pc[t] = "ic_unlock"
       /\ \A u \in Threads \ {t} : Idle(u)
       /\ plus[arg[t].typeName] = 2
       /\ minus[arg[t].typeName] = 1
       /\ objs[arg[t].typeName] = 1
       /\ ret[t].value = 1

\* C10: the report of print_leaks has exactly one row (type, count) for
\* every entry with count > 0 and no row for any other type; its total is
\* the sum of the counts of the listed types; and it says "no leaks"
\* exactly when the total is 0.
C10_LeakReport ==
    \A t \in Threads :
       pc[t] = "pl_unlock" =>
          LET r == ret[t]
              at(n) == {i \in 1..Len(r.rows) : r.rows[i][1] = n}
              listed == {n \in TypeNames : at(n) # {}}
          IN  /\ \A i \in 1..Len(r.rows) : r.rows[i][1] \in TypeNames
              /\ \A n \in TypeNames :
                    IF n \in DOMAIN s_stats /\ s_stats[n].count > 0
                    THEN /\ Cardinality(at(n)) = 1
                         /\ \A i \in at(n) : r.rows[i] = <<n, s_stats[n].count>>
                    ELSE at(n) = {}
              /\ r.leaks = Sum([n \in listed |-> s_stats[n].count], listed)
              /\ r.noLeaks <=> (r.leaks = 0)

\* print_leaks has listed one type and left out an entry whose count is
\* not positive.
C10_Witness ==
    \E t \in Threads :
       /\ pc[t] = "pl_unlock"
       /\ Len(ret[t].rows) = 1
       /\ ret[t].leaks = 2
       /\ \E n \in DOMAIN s_stats : s_stats[n].count <= 0

\* The number of update calls applied to type n so far.
Applied(n) == plus[n] + minus[n] + other[n]

\* C11: the value instance_count<T>() returns is the count field of T's
\* entry as the last update of T left it, and 0 for a type to which no
\* update has been applied.
C11_InstanceCountIsLive ==
    \A t \in Threads :
       pc[t] = "ic_unlock" =>
          /\ ret[t].value = Live(arg[t].typeName)
          /\ Applied(arg[t].typeName) = 0 => ret[t].value = 0
          /\ ~viol[arg[t].typeName] =>
                ret[t].value = plus[arg[t].typeName] - minus[arg[t].typeName]

\* instance_count<T>() has returned 1 for a type whose count has been 2.
C11_Witness ==
    \E t \in Threads :
       /\ pc[t] = "ic_unlock"
       /\ ret[t].value = 1
       /\ Peak(arg[t].typeName) = 2
       /\ minus[arg[t].typeName] = 1

\* C12: no step removes a key from the map; and the report of print_stats
\* has exactly one row (type, count, total, max) for every type to which
\* an update has been applied, whatever its count.
C12_EntriesPersist ==
    [][/\ DOMAIN s_stats \subseteq DOMAIN s_stats'
       /\ \A t \in Threads :
             (pc[t] = "idle" /\ pc'[t] = "ps_unlock") =>
                LET rows == ret'[t].rows
                IN  \A n \in TypeNames :
                       Applied(n) > 0 =>
                          /\ n \in DOMAIN s_stats
                          /\ Cardinality({i \in 1..Len(rows) : rows[i][1] = n}) = 1
                          /\ \E i \in 1..Len(rows) :
                                rows[i] = <<n, Live(n), Total(n), Peak(n)>>
      ]_vars

\* print_stats has printed the row of a type whose one object was created
\* and destroyed.
C12_Witness ==
    \E t \in Threads :
       /\ pc[t] = "ps_unlock"
       /\ \E i \in 1..Len(ret[t].rows) :
             /\ ret[t].rows[i][2] = 0
             /\ ret[t].rows[i][3] = 1
             /\ ret[t].rows[i][4] = 1

\* A thread is inside update's critical section.
InUpdate(t) ==
    pc[t] \in {"u_lookup", "u_load", "u_count", "u_check", "u_total", "u_max",
               "u_unlock"}

\* A thread is inside print_stats, print_leaks or instance_count, with what
\* it has read from the map in ret.
Observing(t) == pc[t] \in {"ps_unlock", "pl_unlock", "ic_unlock"}

\* The counters a sequence of whole update calls leaves for type n: count
\* and total add up the increments applied, max is the largest count held.
Sequential(n) ==
    /\ Live(n) <= Peak(n)
    /\ Live(n) <= Total(n)
    /\ Peak(n) = hi[n]
    /\ other[n] = 0 => (Live(n) = plus[n] - minus[n] /\ Total(n) = plus[n])

\* C13: while print_stats, print_leaks or instance_count reads the map no
\* update is part-way through, every entry is as a sequence of whole
\* updates leaves it, and what the query has read is that state: no row or
\* value shows count > max or count > total.
C13_UpdateIsAtomic ==
    \A t \in Threads :
       Observing(t) =>
          /\ \A u \in Threads : ~InUpdate(u)
          /\ \A n \in TypeNames : Sequential(n)
          /\ pc[t] = "ps_unlock" =>
                \A i \in 1..Len(ret[t].rows) :
                   LET row == ret[t].rows[i]
                   IN  /\ row = <<row[1], Live(row[1]), Total(row[1]), Peak(row[1])>>
                       /\ row[2] <= row[4]
                       /\ row[2] <= row[3]
          /\ pc[t] = "pl_unlock" =>
                \A i \in 1..Len(ret[t].rows) :
                   ret[t].rows[i][2] = Live(ret[t].rows[i][1])
          /\ pc[t] = "ic_unlock" => ret[t].value = Live(arg[t].typeName)

\* print_stats reads the map after updates of two threads: one type's
\* count is 1 below its max.
C13_Witness ==
    \E t \in Threads :
       /\ pc[t] = "ps_unlock"
       /\ \A u \in Threads : calls[u] > 0
       /\ \E i \in 1..Len(ret[t].rows) :
             ret[t].rows[i][2] = 1 /\ ret[t].rows[i][4] = 2

\* The operations that are calls of update.
Updates == {"update", "ctor", "copy", "dtor", "assign"}

\* C14: in a debug build, a call of update with an increment other than +1
\* and -1 aborts the program at once: the caller does not take s_mutex, the
\* map keeps its keys and entries, and nothing runs afterwards (so no such
\* increment is ever applied).
C14_BadIncrementRejected ==
    [][/\ \A t \in Threads :
             (/\ ~ndebug
              /\ pc[t] = "idle"
              /\ arg'[t].via \in Updates
              /\ arg'[t].increment \notin {1, -1}) =>
                /\ status' = "aborted"
                /\ pc'[t] = "u_assert"
                /\ s_mutex' = s_mutex
                /\ s_stats' = s_stats
       /\ status = "aborted" => s_stats' = s_stats
       /\ ~ndebug => \A n \in TypeNames : other'[n] = 0
      ]_vars

\* A debug build has aborted on a bad increment while another thread was
\* inside update, and the map holds an entry.
C14_Witness ==
    \E t \in Threads :
       /\ ~ndebug
       /\ status = "aborted"
       /\ pc[t] = "u_assert"
       /\ arg[t].increment = 2
       /\ s_mutex \notin {0, t}
       /\ DOMAIN s_stats # {}

\* Some entry of the map has a negative count.
AnyNegative == \E n \in DOMAIN s_stats : s_stats[n].count < 0

\* C15: in a debug build, an update(T, -1) applied at count 0 is fatal: the
\* step after the one that leaves a negative count is the failed assertion,
\* which aborts the program, and no thread takes a step of any operation or
\* query while the map holds a negative count.
C15_NegativeIsFatal ==
    [][(~ndebug /\ AnyNegative) =>
          /\ status' = "aborted"
          /\ s_stats' = s_stats
          /\ \A t \in Threads : pc'[t] = pc[t] \/ pc'[t] = "u_assert"
      ]_vars

\* A thread is inside print_stats or print_leaks, with its report in ret.
Reporting(t) == pc[t] \in {"ps_unlock", "pl_unlock"}

\* The types the rows of a report name.
Named(rows) == {rows[i][1] : i \in 1..Len(rows)}

\* C16: the rows of print_stats and print_leaks are in lexicographic order
\* of the type name, whatever the order in which the keys were inserted,
\* and the report is fixed by the set of keys and by each type's own
\* history of update calls: print_stats has one row per key, print_leaks
\* one per key with a positive count, and for a type handed only +1 and -1
\* count = (#+1) - (#-1), total = #+1, max = the largest count it held.
C16_ReportOrderIsLexicographic ==
    \A t \in Threads :
       Reporting(t) =>
          LET rows == ret[t].rows
          IN  /\ \A i, j \in 1..Len(rows) :
                    i < j => StringLess(rows[i][1], rows[j][1])
              /\ pc[t] = "ps_unlock" =>
                    /\ Named(rows) = DOMAIN s_stats
                    /\ Named(rows) = {order.keys[i] : i \in 1..Len(order.keys)}
                    /\ \A i \in 1..Len(rows) :
                          LET n == rows[i][1]
                          IN  other[n] = 0 =>
                                 rows[i] = <<n, plus[n] - minus[n], plus[n], hi[n]>>
              /\ pc[t] = "pl_unlock" =>
                    /\ Named(rows) = {n \in DOMAIN s_stats : s_stats[n].count > 0}
                    /\ \A i \in 1..Len(rows) :
                          LET n == rows[i][1]
                          IN  other[n] = 0 => rows[i] = <<n, plus[n] - minus[n]>>

\* print_stats has printed two rows, the second for the type that was
\* recorded first.
C16_Witness ==
    \E t \in Threads :
       /\ pc[t] = "ps_unlock"
       /\ Len(ret[t].rows) = 2
       /\ Len(order.keys) = 2
       /\ ret[t].rows[2][1] = order.keys[1]
       /\ \A n \in TypeNames : plus[n] > 0

\* C16 as stated: the report is fixed by each type's multiset of update
\* calls, so it is the report of the run that makes the same calls with
\* every +1 before every -1, where max = #+1.
C16_SameCallsSameReport ==
    \A t \in Threads :
       pc[t] = "ps_unlock" =>
          \A i \in 1..Len(ret[t].rows) :
             LET n == ret[t].rows[i][1]
             IN  ~viol[n] =>
                    ret[t].rows[i] = <<n, plus[n] - minus[n], plus[n], plus[n]>>

\* C17: no step taken while an update(T, -1) is under way changes max or
\* total of T, the step of the comparison on line 28 included; and max of T
\* changes only at that comparison in an update of T with a positive
\* increment (+1, for a type handed only +1 and -1), to the new count,
\* which exceeds the max before.
C17_DecrementChangesOnlyLive ==
    [][\A n \in TypeNames :
          /\ (\E t \in Threads :
                 InUpdate(t) /\ arg[t].typeName = n /\ arg[t].increment = -1) =>
                (Peak(n)' = Peak(n) /\ Total(n)' = Total(n))
          /\ Peak(n)' # Peak(n) =>
                \E t \in Threads :
                   /\ pc[t] = "u_max"
                   /\ pc'[t] = "u_unlock"
                   /\ arg[t].typeName = n
                   /\ arg[t].increment > 0
                   /\ other[n] = 0 => arg[t].increment = 1
                   /\ Live(n) > Peak(n)
                   /\ Peak(n)' = Live(n)
      ]_vars

\* An update(T, -1) has passed the comparison: count is 1, max and total
\* are still 2.
C17_Witness ==
    \E t \in Threads :
       /\ pc[t] = "u_unlock"
       /\ arg[t].increment = -1
       /\ Live(arg[t].typeName) = 1
       /\ Peak(arg[t].typeName) = 2
       /\ Total(arg[t].typeName) = 2

\* The map has the same entry, or the same absence of one, for type n
\* before and after the step.
SameEntry(n) ==
    /\ (n \in DOMAIN s_stats') <=> (n \in DOMAIN s_stats)
    /\ n \in DOMAIN s_stats => s_stats'[n] = s_stats[n]

\* C18: no step of update(T, increment), from the call to the return,
\* changes another type's entry: a key other than T's is present after the
\* step exactly if it was before, with the same count, max and total.
C18_UpdateTouchesOnlyItsEntry ==
    [][\A t \in Threads :
          (pc'[t] # pc[t] /\ (InUpdate(t) \/ InUpdate(t)')) =>
             LET T == IF InUpdate(t) THEN arg[t].typeName ELSE arg'[t].typeName
             IN  \A n \in TypeNames \ {T} : SameEntry(n)
      ]_vars

\* With asserts compiled out, an update(T, -1) has created T's entry and
\* left its count at -1, next to an entry whose count is 1.
C18_Witness ==
    \E t \in Threads :
       /\ pc[t] = "u_unlock"
       /\ arg[t].increment = -1
       /\ Applied(arg[t].typeName) = 1
       /\ Live(arg[t].typeName) = -1
       /\ \E n \in DOMAIN s_stats :
             n # arg[t].typeName /\ s_stats[n] = [count |-> 1, max |-> 1, total |-> 1]

\* total >= max >= count for type n, unless an update of n is between its
\* write of count and its write of max.
Ordered(n) == ~MidUpdate(n) => (Total(n) >= Peak(n) /\ Peak(n) >= Live(n))

\* C19: in every state in which no update is part-way through an entry,
\* the entry has total >= max >= count; and an entry that a step creates
\* (the lookup of update, or that of instance_count) has count = 0,
\* max = 0 and total = 0.
C19_TotalMaxCountOrdered ==
    [][\A n \in TypeNames :
          /\ Ordered(n)
          /\ Ordered(n)'
          /\ (n \notin DOMAIN s_stats /\ n \in DOMAIN s_stats') =>
                s_stats'[n] = [count |-> 0, max |-> 0, total |-> 0]
      ]_vars

\* instance_count has created one entry, all zero, and updates have left
\* another with total 2, max 1 and count 0 or 1.
C19_Witness ==
    /\ Quiet
    /\ \E n \in DOMAIN s_stats :
          Applied(n) = 0 /\ s_stats[n] = [count |-> 0, max |-> 0, total |-> 0]
    /\ \E n \in DOMAIN s_stats :
          s_stats[n].total = 2 /\ s_stats[n].max = 1 /\ s_stats[n].count <= 1

\* C20: has_leaks and print_leaks agree on a map that no update is
\* changing, negative counts included. A has_leaks call that no writer's
\* critical section overlapped returns false exactly if print_leaks, run on
\* the map as it is, says "no leaks", and true exactly if it reports a
\* positive total; and a print_leaks call that follows such a has_leaks
\* call with no update step in between says "no leaks" exactly if has_leaks
\* returned false.
C20_ReportsAgree ==
    [][\A t \in Threads :
          /\ (pc[t] = "hl_loop" /\ pc'[t] = "hl_done" /\ ~raced[t]) =>
                /\ ~ret'[t].value <=> LeaksReport(s_stats).noLeaks
                /\ ret'[t].value <=> LeaksReport(s_stats).leaks > 0
          /\ (pc[t] = "idle" /\ pc'[t] = "pl_unlock" /\ last.leaks # NoRet) =>
                /\ ret'[t].noLeaks <=> ~last.leaks.value
                /\ ret'[t].leaks > 0 <=> last.leaks.value
      ]_vars

\* With asserts compiled out, one count is 1 and another -1: has_leaks has
\* returned true and print_leaks, called next, reports 1 leak.
C20_Witness ==
    \E t \in Threads :
       /\ pc[t] = "pl_unlock"
       /\ last.leaks # NoRet
       /\ last.leaks.value
       /\ AnyNegative
       /\ ret[t].leaks = 1
       /\ ~ret[t].noLeaks

=============================================================================
